---- MODULE Spec2Model ----
(***************************************************************************)
(* Model of the Gotify guessing game (src/src/components/Gotify.tsx), of   *)
(* the preview enhancement it uses (src/src/services/api.ts) and of the    *)
(* similarity score of Spotimatch (src/src/components/Spotimatch.tsx).     *)
(*                                                                         *)
(* The React state object `gameState` is one variable holding a record;    *)
(* the refs (timerRef, audioRef) and the asynchronous work in flight (the  *)
(* catalog fetches, the enhancement calls, the 500 ms timeouts) are the    *)
(* other variables.  A handler is an operator from the state it reads to   *)
(* the state it writes; an action applies a handler and then the timer     *)
(* effect that React runs after the render the handler caused.             *)
(***************************************************************************)
EXTENDS Integers, Sequences, FiniteSets, TLC

(***************************************************************************)
(* Bounds of the model.                                                    *)
(***************************************************************************)
\* Longest text typed into the guess box when the classification is checked.
MaxGuessLen == 5
\* Tracks of the pool, all with a preview, of the sessions of give-ups only.
ScenarioPool == 5
\* Track identifiers the catalog can return are 1..NumIds.
NumIds == 4
\* A catalog response of the small universe holds at most this many tracks.
MaxBatch == 3
\* Tracks of the pool, all with a preview, of the sessions that reach the last turn.
LongPool == 6
\* 500 ms auto-play timeouts that can be pending at once.
MaxAutoPlay == 1
\* Playing Audio elements no longer held by audioRef that are counted.
MaxLeaked == 2

Ids == 1..NumIds

Min(a, b) == IF a < b THEN a ELSE b
Max(a, b) == IF a > b THEN a ELSE b

(***************************************************************************)
(* Strings are sequences of one-character strings.                         *)
(***************************************************************************)
LowerChars == <<"a", "b", "c", "p", "q", "x", "z">>
UpperChars == <<"A", "B", "C", "P", "Q", "X", "Z">>
SpaceChars == {" "}
PunctChars == {"!"}

IndexOf(c, s) == CHOOSE i \in 1..Len(s) : s[i] = c
IsIn(c, s) == \E i \in 1..Len(s) : s[i] = c

\* String.prototype.toLowerCase, one character
toLowerCase(c) == IF IsIn(c, UpperChars) THEN LowerChars[IndexOf(c, UpperChars)] ELSE c

IsWordChar(c) == IsIn(c, LowerChars) \/ IsIn(c, UpperChars)
IsSpaceChar(c) == c \in SpaceChars

\* .replace(/[^\w\s]/g, "")
RemovePunctuation(s) == SelectSeq(s, LAMBDA c : IsWordChar(c) \/ IsSpaceChar(c))

\* .replace(/\s+/g, " ")
RECURSIVE CollapseSpaces(_)
CollapseSpaces(s) ==
    IF s = <<>> THEN <<>>
    ELSE IF IsSpaceChar(Head(s))
         THEN IF Len(s) > 1 /\ IsSpaceChar(s[2])
              THEN CollapseSpaces(Tail(s))
              ELSE <<" ">> \o CollapseSpaces(Tail(s))
         ELSE <<Head(s)>> \o CollapseSpaces(Tail(s))

\* String.prototype.trim
RECURSIVE TrimLeft(_)
TrimLeft(s) == IF s # <<>> /\ IsSpaceChar(Head(s)) THEN TrimLeft(Tail(s)) ELSE s
RECURSIVE TrimRight(_)
TrimRight(s) ==
    IF s # <<>> /\ IsSpaceChar(s[Len(s)]) THEN TrimRight(SubSeq(s, 1, Len(s) - 1)) ELSE s
trim(s) == TrimRight(TrimLeft(s))

normalizeString(str) ==
    trim(CollapseSpaces(RemovePunctuation([i \in 1..Len(str) |-> toLowerCase(str[i])])))

\* String.prototype.includes
includes(s, sub) ==
    \E i \in 0..(Len(s) - Len(sub)) : SubSeq(s, i + 1, i + Len(sub)) = sub

\* String.prototype.split(" ")
RECURSIVE split(_)
split(s) ==
    IF \A i \in 1..Len(s) : s[i] # " " THEN <<s>>
    ELSE LET k == CHOOSE i \in 1..Len(s) :
                      s[i] = " " /\ \A j \in 1..(i - 1) : s[j] # " "
         IN <<SubSeq(s, 1, k - 1)>> \o split(SubSeq(s, k + 1, Len(s)))

\* calculateSimilarity, as a fraction <<numerator, denominator>>
calculateSimilarity(str1, str2) ==
    LET norm1 == normalizeString(str1)
        norm2 == normalizeString(str2)
        words1 == split(norm1)
        words2 == split(norm2)
        matchingWords == SelectSeq(words1, LAMBDA word :
                            \E k \in 1..Len(words2) :
                                includes(words2[k], word) \/ includes(word, words2[k]))
    IN IF norm1 = norm2 THEN <<1, 1>>
       ELSE IF includes(norm1, norm2) \/ includes(norm2, norm1) THEN <<8, 10>>
       ELSE IF Len(matchingWords) > 0
            THEN <<Len(matchingWords), Max(Len(words1), Len(words2))>>
            ELSE <<0, 1>>

\* similarity >= n/10
AtLeastTenths(sim, n) == 10 * sim[1] >= n * sim[2]

(***************************************************************************)
(* Tracks.  A track object is its identifier, its preview URL (0 is null,  *)
(* i is the preview clip of track i) and the place that allocated the      *)
(* object: two objects are the same JavaScript reference exactly when the  *)
(* records are equal, because each place allocates one object per track.   *)
(***************************************************************************)
NoTrack == [id |-> 0, preview_url |-> 0, ref |-> "null"]

\* Titles and primary artists of the tracks -1, -2, ... that the classification
\* of guesses is checked on: one-word and two-word names, an artist that is part
\* of the title, an artist equal to the title, a title of punctuation only.
GuessCatalog ==
    << [name |-> <<"a">>,           artist |-> <<"z">>],
       [name |-> <<"a", " ", "p">>, artist |-> <<"z">>],
       [name |-> <<"a", "z">>,      artist |-> <<"z">>],
       [name |-> <<"a">>,           artist |-> <<"p", " ", "z">>],
       [name |-> <<"z">>,           artist |-> <<"z">>],
       [name |-> <<"!">>,           artist |-> <<"z">>] >>

\* track.name and track.artists[0].name of the catalog entry with this id
TitleLetters == <<"a", "b", "c">>
TrackName(id) ==
    IF id < 0 THEN GuessCatalog[0 - id].name
    ELSE <<TitleLetters[((id - 1) % 3) + 1], " ", "p", " ", "q">>
ArtistName(id) == IF id < 0 THEN GuessCatalog[0 - id].artist ELSE <<"z">>

\* What the player can type into the guess box.
Guesses == { <<>>, <<" ", " ">>, <<"A", " ", "p", " ", " ", "q", "!">>, <<"x">> }

(***************************************************************************)
(* difficultySettings; scoreMultiplier is kept in tenths (1.5 is 15).      *)
(***************************************************************************)
Difficulties == {"easy", "medium", "hard"}
difficultySettings ==
    [easy   |-> [maxTurns |-> 5,  timeLimit |-> 30, scoreMultiplier10 |-> 10, hints |-> 5],
     medium |-> [maxTurns |-> 10, timeLimit |-> 20, scoreMultiplier10 |-> 15, hints |-> 3],
     hard   |-> [maxTurns |-> 15, timeLimit |-> 15, scoreMultiplier10 |-> 20, hints |-> 1]]

\* Math.round of the non-negative fraction n/d
Round(n, d) == (2 * n + d) \div (2 * d)

\* Spotimatch before a seed track is chosen
NoMatch == [st |-> "idle"]

VARIABLES
    gameState,        \* the useState object of the component
    timerRef,         \* TRUE while the one-second timeout of the timer effect is pending
    audioRef,         \* audioRef.current: "null", "playing" or "paused"
    leaked,           \* Audio elements still playing that audioRef no longer holds
    autoPlayTimers,   \* pending 500 ms auto-play timeouts of generateRandomTrack
    ticksThisTurn,    \* history: ticks since the current track was selected
    timeUpsThisTurn,  \* history: handleTimeUp calls since the turn number last changed
    resolutionsThisTurn, \* history: outcomes applied since the track was selected or advanced
    user,             \* useAuth().user: TRUE when a player is signed in
    saveScoreCalls,   \* the backendApi.saveScore calls of the session, in order
    match,            \* Spotimatch: the recommendation being processed
    swipe,            \* Spotimatch: the recommendation list and its requests in flight
    catalog,          \* what getTopTracks answers for medium_term, short_term, long_term
    deezer,           \* the tracks findPreviewUrlDeezer finds a preview for
    failures,         \* the requests that fail: preview lookups (by track), catalog fetches
    loader,           \* where loadInitialTracks / loadAdditionalTracksInBackground stand
    quick,            \* the call of enhanceInitialTracksQuickly: state and argument
    remaining         \* the call of enhanceRemainingTracksInBackground: state and argument

vars == <<gameState, timerRef, audioRef, leaked, autoPlayTimers,
          ticksThisTurn, timeUpsThisTurn, resolutionsThisTurn, user, saveScoreCalls,
          match, swipe, catalog, deezer, failures, loader, quick, remaining>>

sessionVars == <<gameState, timerRef, audioRef, leaked, autoPlayTimers,
                 ticksThisTurn, timeUpsThisTurn, resolutionsThisTurn>>
pipelineVars == <<catalog, deezer, failures, loader, quick, remaining>>
otherVars == <<pipelineVars, user, match, swipe>>

\* useState initial value (lines 56-81)
InitialGameState ==
    [score |-> 0, turn |-> 0, timeLeft |-> 20, gameStarted |-> FALSE, gameOver |-> FALSE,
     isPlaying |-> FALSE, currentTrack |-> NoTrack, guess |-> <<>>, showReveal |-> FALSE,
     tracks |-> <<>>, playedTracks |-> <<>>, difficulty |-> "medium", maxTurns |-> 10,
     turnTimeLimit |-> 20, lastGuessResult |-> "null", streak |-> 0, hints |-> 3,
     showHint |-> FALSE, initialTracksLoaded |-> FALSE, backgroundLoadingComplete |-> FALSE]

(***************************************************************************)
(* Audio.                                                                  *)
(***************************************************************************)
\* audioRef.current.pause() when audioRef.current is set
pauseAudio(aref) == IF aref = "playing" THEN "paused" ELSE aref

\* pauseTrack: pauses and clears isPlaying only when audioRef.current is set
pauseTrack(g, aref) == IF aref # "null" THEN [g EXCEPT !.isPlaying = FALSE] ELSE g

(***************************************************************************)
(* The timer effect (useEffect on timeLeft, gameStarted, gameOver,         *)
(* showReveal).  React runs its cleanup and then its body after every      *)
(* render in which one of the four changed.                                *)
(***************************************************************************)
TimerDeps(g) == <<g.timeLeft, g.gameStarted, g.gameOver, g.showReveal>>

\* first branch: schedule the next tick
TimerArms(g) == g.gameStarted /\ ~g.gameOver /\ g.timeLeft > 0 /\ ~g.showReveal

\* else-branch: the time is up
TimerTimeUp(g) == ~TimerArms(g) /\ g.timeLeft = 0 /\ g.gameStarted /\ ~g.showReveal

\* mutant: the time-up penalty leaves the streak alone
handleTimeUpKeepsStreak(g, aref) ==
    pauseTrack([g EXCEPT !.score = Max(0, g.score - 2),
                         !.showReveal = TRUE,
                         !.lastGuessResult = "wrong"], aref)

handleTimeUp(g, aref) ==
    pauseTrack([g EXCEPT !.score = Max(0, g.score - 2),
                         !.showReveal = TRUE,
                         !.lastGuessResult = "wrong",
                         !.streak = 0], aref)

\* does the effect call handleTimeUp after the render that takes old to new
TimeUpFires(old, new) == TimerDeps(old) # TimerDeps(new) /\ TimerTimeUp(new)

\* mutant: the cleanup leaves the timeout pending
ClearTimerForgets(pending) == pending

\* the effect's cleanup: clearTimeout(timerRef.current)
ClearTimer(pending) == FALSE

\* timerRef after the render: cleanup clears the pending timeout, the body may set one
TimerAfter(old, new, pending) ==
    IF TimerDeps(old) = TimerDeps(new) THEN pending
    ELSE IF TimerArms(new) THEN TRUE ELSE ClearTimer(pending)

\* A handler has produced `new`, applying n outcomes (a scored guess, a give-up) to
\* the turn, and left the audio in `aref`: render, run the effect.
CommitScored(new, aref, n) ==
    /\ gameState' = IF TimeUpFires(gameState, new) THEN handleTimeUp(new, aref) ELSE new
    /\ audioRef' = IF TimeUpFires(gameState, new) THEN pauseAudio(aref) ELSE aref
    /\ timerRef' = TimerAfter(gameState, new, timerRef)
    /\ timeUpsThisTurn' =
          (IF new.turn # gameState.turn THEN 0 ELSE timeUpsThisTurn)
          + (IF TimeUpFires(gameState, new) THEN 1 ELSE 0)
    /\ resolutionsThisTurn' =
          (IF new.turn # gameState.turn \/ new.currentTrack # gameState.currentTrack
           THEN 0 ELSE resolutionsThisTurn)
          + n + (IF TimeUpFires(gameState, new) THEN 1 ELSE 0)

\* A handler that applies no outcome.
Commit(new, aref) == CommitScored(new, aref, 0)

(***************************************************************************)
(* Handlers of the session, as functions of the state they read.           *)
(***************************************************************************)
\* Array.prototype.includes on track objects: reference equality
InSeq(t, seq) == \E i \in 1..Len(seq) : seq[i] = t

HasPreview(t) == t.preview_url # 0

\* gameState.tracks.filter((track) => track.preview_url)
tracksWithPreviews(g) == SelectSeq(g.tracks, HasPreview)

\* mutant: two tracks with a preview are enough
canStartWithTwo(g) == Len(tracksWithPreviews(g)) >= 2

\* startGame's precondition: at least 3 tracks with a preview
canStart(g) == Len(tracksWithPreviews(g)) >= 3

\* mutant: the last turn is passed before it is noticed
lastTurnReachedOffByOne(g) == g.turn > g.maxTurns

\* nextTurn's test for the last turn
lastTurnReached(g) == g.turn >= g.maxTurns

\* mutant: the hint allowance is not set with the difficulty
setDifficultyForgetsHints(g, d) ==
    [g EXCEPT !.difficulty = d,
              !.maxTurns = difficultySettings[d].maxTurns,
              !.turnTimeLimit = difficultySettings[d].timeLimit]

setDifficulty(g, d) ==
    [g EXCEPT !.difficulty = d,
              !.maxTurns = difficultySettings[d].maxTurns,
              !.turnTimeLimit = difficultySettings[d].timeLimit,
              !.hints = difficultySettings[d].hints]

\* the state update of startGame, before it calls generateRandomTrack
startGame(g) ==
    [g EXCEPT !.gameStarted = TRUE, !.score = 0, !.turn = 1,
              !.timeLeft = g.turnTimeLimit, !.playedTracks = <<>>, !.streak = 0,
              !.lastGuessResult = "null", !.showReveal = FALSE, !.guess = <<>>,
              !.showHint = FALSE]

\* mutant: tracks already played stay candidates
availableTracksIgnoresPlayed(g) == SelectSeq(g.tracks, HasPreview)

\* generateRandomTrack: the candidates, read from the render's gameState
availableTracks(g) ==
    SelectSeq(g.tracks, LAMBDA t : ~InSeq(t, g.playedTracks) /\ HasPreview(t))

\* mutant: the chosen track is not recorded as played
selectTrackForgetsPlayed(prev, randomTrack) ==
    [prev EXCEPT !.currentTrack = randomTrack, !.timeLeft = prev.turnTimeLimit,
                 !.guess = <<>>, !.showReveal = FALSE, !.isPlaying = FALSE,
                 !.showHint = FALSE, !.lastGuessResult = "null"]

\* generateRandomTrack: the state update once randomTrack is chosen
selectTrack(prev, randomTrack) ==
    [prev EXCEPT !.currentTrack = randomTrack, !.timeLeft = prev.turnTimeLimit,
                 !.guess = <<>>, !.showReveal = FALSE, !.isPlaying = FALSE,
                 !.showHint = FALSE, !.lastGuessResult = "null",
                 !.playedTracks = Append(prev.playedTracks, randomTrack)]

\* mutant: the test for a partial match comes first
guessResultPartialFirst(guess, track) ==
    LET trackName == TrackName(track.id)
        artistName == ArtistName(track.id)
        trackSimilarity == calculateSimilarity(guess, trackName)
        artistSimilarity == calculateSimilarity(guess, artistName)
        combinedSimilarity ==
            calculateSimilarity(guess, trackName \o <<" ">> \o artistName)
    IN IF \/ AtLeastTenths(trackSimilarity, 6)
          \/ AtLeastTenths(artistSimilarity, 6)
          \/ AtLeastTenths(combinedSimilarity, 6)
       THEN "partial"
       ELSE IF \/ AtLeastTenths(combinedSimilarity, 8)
               \/ AtLeastTenths(trackSimilarity, 8) /\ AtLeastTenths(artistSimilarity, 8)
            THEN "correct"
            ELSE "wrong"

\* the classification of handleGuess
guessResult(guess, track) ==
    LET trackName == TrackName(track.id)
        artistName == ArtistName(track.id)
        trackSimilarity == calculateSimilarity(guess, trackName)
        artistSimilarity == calculateSimilarity(guess, artistName)
        combinedSimilarity ==
            calculateSimilarity(guess, trackName \o <<" ">> \o artistName)
    IN IF \/ AtLeastTenths(combinedSimilarity, 8)
          \/ AtLeastTenths(trackSimilarity, 8) /\ AtLeastTenths(artistSimilarity, 8)
       THEN "correct"
       ELSE IF \/ AtLeastTenths(trackSimilarity, 6)
               \/ AtLeastTenths(artistSimilarity, 6)
               \/ AtLeastTenths(combinedSimilarity, 6)
            THEN "partial"
            ELSE "wrong"

\* mutant: the time bonus is also given at exactly 70% of the time limit
scoreIncreaseBonusAtSeventy(g, result) ==
    LET m10 == difficultySettings[g.difficulty].scoreMultiplier10
        base == CASE result = "correct" -> Round(m10 * (10 + g.streak), 10)
                  [] result = "partial" -> Round(5 * m10, 10)
                  [] OTHER -> 0 - 2
    IN IF result # "wrong" /\ 10 * g.timeLeft >= 7 * g.turnTimeLimit
       THEN base + Round(3 * m10, 10)
       ELSE base

\* scoreIncrease of handleGuess, time bonus included
scoreIncrease(g, result) ==
    LET m10 == difficultySettings[g.difficulty].scoreMultiplier10
        base == CASE result = "correct" -> Round(m10 * (10 + g.streak), 10)
                  [] result = "partial" -> Round(5 * m10, 10)
                  [] OTHER -> 0 - 2
        isCorrect == result # "wrong"
    IN IF isCorrect /\ 10 * g.timeLeft > 7 * g.turnTimeLimit
       THEN base + Round(3 * m10, 10)
       ELSE base

\* mutant: the guess is scored even when it is blank or there is no track
handleGuessScoresBlank(g, aref) ==
    LET result == IF g.currentTrack = NoTrack THEN "wrong"
                  ELSE guessResult(trim(g.guess), g.currentTrack)
    IN pauseTrack([g EXCEPT !.score = Max(0, g.score + scoreIncrease(g, result)),
                            !.showReveal = TRUE,
                            !.lastGuessResult = result,
                            !.streak = IF result # "wrong" THEN g.streak + 1 ELSE 0],
                  aref)

handleGuess(g, aref) ==
    IF g.currentTrack = NoTrack \/ trim(g.guess) = <<>> THEN g
    ELSE LET result == guessResult(trim(g.guess), g.currentTrack)
         IN pauseTrack([g EXCEPT !.score = Max(0, g.score + scoreIncrease(g, result)),
                                 !.showReveal = TRUE,
                                 !.lastGuessResult = result,
                                 !.streak = IF result # "wrong" THEN g.streak + 1 ELSE 0],
                       aref)

\* mutant: a second hint can be taken while one is shown
useHintWhileShown(g) ==
    IF g.hints <= 0 THEN g
    ELSE [g EXCEPT !.hints = g.hints - 1, !.showHint = TRUE,
                   !.score = Max(0, g.score - 1)]

useHint(g) ==
    IF g.hints <= 0 \/ g.showHint THEN g
    ELSE [g EXCEPT !.hints = g.hints - 1, !.showHint = TRUE,
                   !.score = Max(0, g.score - 1)]

\* mutant: the give-up penalty is not floored
handleRevealNoFloor(g, aref) ==
    pauseTrack([g EXCEPT !.showReveal = TRUE, !.lastGuessResult = "wrong",
                         !.score = g.score - 3, !.streak = 0], aref)

\* mutant: the give-up scores the text that is in the guess box
handleRevealEvaluatesGuess(g, aref) ==
    IF trim(g.guess) # <<>> THEN handleGuess(g, aref)
    ELSE pauseTrack([g EXCEPT !.showReveal = TRUE, !.lastGuessResult = "wrong",
                              !.score = Max(0, g.score - 3), !.streak = 0], aref)

\* mutant: the give-up leaves the streak alone
handleRevealKeepsStreak(g, aref) ==
    pauseTrack([g EXCEPT !.showReveal = TRUE, !.lastGuessResult = "wrong",
                         !.score = Max(0, g.score - 3)], aref)

handleReveal(g, aref) ==
    pauseTrack([g EXCEPT !.showReveal = TRUE, !.lastGuessResult = "wrong",
                         !.score = Max(0, g.score - 3), !.streak = 0], aref)

\* mutant: the turn counter is not advanced
nextTurnForgetsTurn(g) ==
    [g EXCEPT !.showReveal = FALSE, !.guess = <<>>, !.showHint = FALSE]

\* the state update of nextTurn, before it calls generateRandomTrack
nextTurn(g) ==
    [g EXCEPT !.turn = g.turn + 1, !.showReveal = FALSE, !.guess = <<>>,
              !.showHint = FALSE]

\* the state update of endGame
endGame(prev) == [prev EXCEPT !.gameOver = TRUE, !.isPlaying = FALSE]

\* mutant: the played set survives the restart
restartGameKeepsPlayed(g) ==
    [g EXCEPT !.score = 0, !.turn = 0, !.timeLeft = g.turnTimeLimit,
              !.gameStarted = FALSE, !.gameOver = FALSE, !.isPlaying = FALSE,
              !.currentTrack = NoTrack, !.guess = <<>>, !.showReveal = FALSE,
              !.lastGuessResult = "null", !.streak = 0,
              !.showHint = FALSE, !.hints = difficultySettings[g.difficulty].hints]

restartGame(g) ==
    [g EXCEPT !.score = 0, !.turn = 0, !.timeLeft = g.turnTimeLimit,
              !.gameStarted = FALSE, !.gameOver = FALSE, !.isPlaying = FALSE,
              !.currentTrack = NoTrack, !.guess = <<>>, !.showReveal = FALSE,
              !.playedTracks = <<>>, !.lastGuessResult = "null", !.streak = 0,
              !.showHint = FALSE, !.hints = difficultySettings[g.difficulty].hints]

(***************************************************************************)
(* Which screen is rendered decides which handlers the player can reach.   *)
(***************************************************************************)
StartScreen(g) == ~g.gameStarted /\ ~g.gameOver
GameScreen(g) == g.gameStarted /\ ~g.gameOver /\ g.currentTrack # NoTrack
GameOverScreen(g) == g.gameOver

(***************************************************************************)
(* The acquisition and enhancement pipeline.                               *)
(***************************************************************************)
\* Math.max(...Object.values(difficultySettings).map((d) => d.maxTurns))
maxTurnsNeeded ==
    CHOOSE m \in {difficultySettings[d].maxTurns : d \in Difficulties} :
        \A d \in Difficulties : difficultySettings[d].maxTurns <= m

\* Math.min(maxTurnsNeeded + 10, 25)
tracksNeeded == Min(maxTurnsNeeded + 10, 25)

\* Array.prototype.slice(from) and slice(0, to), 0-based as in the source
sliceFrom(seq, from) == SubSeq(seq, from + 1, Len(seq))
sliceTo(seq, to) == SubSeq(seq, 1, Min(to, Len(seq)))

\* no request fails
NoFailures == [lookups |-> {}, fetches |-> {}]

\* spotifyApi.getTopTracks(range, limit).catch(() => ({ items: [] })): the items
getTopTracks(range) == IF range \in failures.fetches THEN <<>> ELSE catalog[range]

\* mutant: one failed lookup rejects the whole enhancement, nothing is applied
previewsFoundAbortsRun == IF failures.lookups # {} THEN {} ELSE deezer

\* the tracks for which findPreviewUrlDeezer returns a URL inside the try of
\* enhanceTracksWithPreviewUrls: a lookup that throws is caught and leaves null
previewsFound == deezer \ failures.lookups

\* mutant: every track is copied, also those that already have a preview
enhanceTracksWithPreviewUrlsCopiesAll(tracks, found, site) ==
    [i \in 1..Len(tracks) |->
        [id |-> tracks[i].id,
         preview_url |-> IF ~HasPreview(tracks[i]) /\ tracks[i].id \in found
                         THEN tracks[i].id ELSE tracks[i].preview_url,
         ref |-> site]]

\* mutant: only the tracks that end up with a preview are returned
enhanceTracksWithPreviewUrlsDropsUnfound(tracks, found, site) ==
    SelectSeq([i \in 1..Len(tracks) |->
                  IF ~HasPreview(tracks[i]) /\ tracks[i].id \in found
                  THEN [id |-> tracks[i].id, preview_url |-> tracks[i].id, ref |-> site]
                  ELSE tracks[i]],
              HasPreview)

\* previewUrlApi.enhanceTracksWithPreviewUrls: same length, same order; a track
\* without preview for which one is found becomes a new object
enhanceTracksWithPreviewUrls(tracks, found, site) ==
    [i \in 1..Len(tracks) |->
        IF ~HasPreview(tracks[i]) /\ tracks[i].id \in found
        THEN [id |-> tracks[i].id, preview_url |-> tracks[i].id, ref |-> site]
        ELSE tracks[i]]

\* mutant: the pool is replaced by the enhanced tracks
quickWriteBackReplacesPool(tracks, enhancedTracks) == enhancedTracks

\* the write-back of enhanceInitialTracksQuickly: updatedTracks[index] = enhancedTrack
quickWriteBack(tracks, enhancedTracks) ==
    [i \in 1..Len(tracks) |->
        IF i <= Len(enhancedTracks) THEN enhancedTracks[i] ELSE tracks[i]]

\* mutant: the write-back starts one position early
remainingWriteBackWrongOffset(tracks, enhancedTracks) ==
    [i \in 1..Len(tracks) |->
        IF i > 2 /\ i - 2 <= Len(enhancedTracks) THEN enhancedTracks[i - 2] ELSE tracks[i]]

\* the write-back of enhanceRemainingTracksInBackground: updatedTracks[index + 3]
remainingWriteBack(tracks, enhancedTracks) ==
    [i \in 1..Len(tracks) |->
        IF i > 3 /\ i - 3 <= Len(enhancedTracks) THEN enhancedTracks[i - 3] ELSE tracks[i]]

\* mutant: the last occurrence of an identifier is kept
uniqueTracksKeepsLast(allTracks) ==
    LET Keep(i) == \A j \in (i + 1)..Len(allTracks) : allTracks[j].id # allTracks[i].id
        kept == {i \in 1..Len(allTracks) : Keep(i)}
        Nth(n) == CHOOSE i \in kept : Cardinality({j \in kept : j < i}) = n - 1
    IN [n \in 1..Cardinality(kept) |-> allTracks[Nth(n)]]

\* allTracks.filter((track, index, self) => index === self.findIndex(same id))
uniqueTracks(allTracks) ==
    LET Keep(i) == \A j \in 1..(i - 1) : allTracks[j].id # allTracks[i].id
        kept == {i \in 1..Len(allTracks) : Keep(i)}
        Nth(n) == CHOOSE i \in kept : Cardinality({j \in kept : j < i}) = n - 1
    IN [n \in 1..Cardinality(kept) |-> allTracks[Nth(n)]]

\* the pool loadAdditionalTracksInBackground stores
mergeTracks(tracks, shortTerm, longTerm) ==
    sliceTo(uniqueTracks(tracks \o shortTerm \o longTerm), maxTurnsNeeded + 10)

Idle == [st |-> "idle", input |-> <<>>]
Running(input) == [st |-> "running", input |-> input]
Done == [st |-> "done", input |-> <<>>]

\* the `loading` state: the spinner replaces every screen
Loading == loader = "medium"

\* loadInitialTracks, from the answer of the medium_term request on
MediumArrives ==
    /\ loader = "medium"
    /\ LET items == getTopTracks("medium")
           tracksToEnhance == sliceTo(items, 3)
           nothingToDo == \A i \in 1..Len(tracksToEnhance) : HasPreview(tracksToEnhance[i])
           g1 == IF Len(items) > 0 THEN [gameState EXCEPT !.tracks = items] ELSE gameState
           g2 == IF Len(items) > 0 /\ nothingToDo
                 THEN [g1 EXCEPT !.initialTracksLoaded = TRUE] ELSE g1
           g3 == IF Len(items) < tracksNeeded THEN g2
                 ELSE [g2 EXCEPT !.backgroundLoadingComplete = TRUE]
       IN /\ Commit(g3, audioRef)
          /\ quick' = IF Len(items) = 0 THEN Idle
                      ELSE IF nothingToDo THEN Done ELSE Running(tracksToEnhance)
          /\ loader' = IF Len(items) < tracksNeeded THEN "more" ELSE "done"
    /\ UNCHANGED <<leaked, autoPlayTimers, ticksThisTurn, catalog, deezer, failures, remaining,
                   user, saveScoreCalls, match, swipe>>

\* enhanceInitialTracksQuickly, from the answer of the enhancement on
QuickResolves ==
    /\ quick.st = "running"
    /\ LET enhancedTracks == enhanceTracksWithPreviewUrls(quick.input, previewsFound, "quick")
       IN Commit([gameState EXCEPT
                     !.tracks = quickWriteBack(gameState.tracks, enhancedTracks),
                     !.initialTracksLoaded = TRUE], audioRef)
    /\ quick' = Done
    /\ UNCHANGED <<leaked, autoPlayTimers, ticksThisTurn, catalog, deezer, failures, loader, remaining,
                   user, saveScoreCalls, match, swipe>>

\* loadAdditionalTracksInBackground, from the answers of both requests on
BackgroundArrives ==
    /\ loader = "more"
    /\ Commit([gameState EXCEPT
                  !.tracks = mergeTracks(gameState.tracks, getTopTracks("short"),
                                         getTopTracks("long")),
                  !.backgroundLoadingComplete = TRUE], audioRef)
    /\ loader' = "delay"
    /\ UNCHANGED <<leaked, autoPlayTimers, ticksThisTurn, catalog, deezer, failures, quick, remaining,
                   user, saveScoreCalls, match, swipe>>

\* the 500 ms timeout of loadAdditionalTracksInBackground: the call of
\* enhanceRemainingTracksInBackground(current.tracks) up to its await
RemainingStarts ==
    /\ loader = "delay"
    /\ LET remainingTracks == sliceFrom(gameState.tracks, 3)
       IN remaining' = IF \A i \in 1..Len(remainingTracks) : HasPreview(remainingTracks[i])
                       THEN Done ELSE Running(remainingTracks)
    /\ loader' = "done"
    /\ UNCHANGED <<sessionVars, catalog, deezer, failures, quick,
                   user, saveScoreCalls, match, swipe>>

\* enhanceRemainingTracksInBackground, from the answer of the enhancement on
RemainingResolves ==
    /\ remaining.st = "running"
    /\ LET enhancedTracks ==
               enhanceTracksWithPreviewUrls(remaining.input, previewsFound, "remaining")
       IN Commit([gameState EXCEPT
                     !.tracks = remainingWriteBack(gameState.tracks, enhancedTracks)],
                 audioRef)
    /\ remaining' = Done
    /\ UNCHANGED <<leaked, autoPlayTimers, ticksThisTurn, catalog, deezer, failures, loader, quick,
                   user, saveScoreCalls, match, swipe>>

(***************************************************************************)
(* Actions of the session.                                                 *)
(***************************************************************************)
\* the arguments of backendApi.saveScore in endGame, read from the render's gameState
saveScore(g) ==
    [score |-> g.score, difficulty |-> g.difficulty, streak |-> g.streak,
     turns_completed |-> g.turn, status |-> "pending"]

\* endGame, called with the state updates `prev` already queued by the caller
EndGame(prev) ==
    /\ Commit(endGame(prev), pauseAudio(audioRef))
    /\ saveScoreCalls' = IF user THEN Append(saveScoreCalls, saveScore(gameState))
                         ELSE saveScoreCalls
    /\ UNCHANGED <<leaked, autoPlayTimers, ticksThisTurn>>

\* generateRandomTrack, called from a render whose state is gameState, with the
\* state updates `prev` already queued by the caller
GenerateRandomTrack(prev) ==
    LET available == availableTracks(gameState)
    IN IF Len(available) = 0
       THEN EndGame(prev)
       ELSE \E k \in 1..Len(available) :
               /\ autoPlayTimers < MaxAutoPlay
               /\ Commit(selectTrack(prev, available[k]), pauseAudio(audioRef))
               /\ autoPlayTimers' = autoPlayTimers + 1
               /\ ticksThisTurn' = 0
               /\ UNCHANGED <<leaked, saveScoreCalls>>

SetDifficulty ==
    /\ ~Loading /\ StartScreen(gameState)
    /\ \E d \in Difficulties : Commit(setDifficulty(gameState, d), audioRef)
    /\ UNCHANGED <<leaked, autoPlayTimers, ticksThisTurn, saveScoreCalls, otherVars>>

StartGame ==
    /\ ~Loading /\ StartScreen(gameState)
    /\ IF ~canStart(gameState)
       THEN UNCHANGED <<sessionVars, saveScoreCalls>>
       ELSE GenerateRandomTrack(startGame(gameState))
    /\ UNCHANGED otherVars

\* onChange of the guess box
SetGuess ==
    /\ GameScreen(gameState) /\ ~gameState.showReveal
    /\ \E text \in Guesses : Commit([gameState EXCEPT !.guess = text], audioRef)
    /\ UNCHANGED <<leaked, autoPlayTimers, ticksThisTurn, saveScoreCalls, otherVars>>

HandleGuess ==
    /\ GameScreen(gameState) /\ ~gameState.showReveal
    /\ IF gameState.currentTrack = NoTrack \/ trim(gameState.guess) = <<>>
       THEN Commit(handleGuess(gameState, audioRef), audioRef)
       ELSE CommitScored(handleGuess(gameState, audioRef), pauseAudio(audioRef), 1)
    /\ UNCHANGED <<leaked, autoPlayTimers, ticksThisTurn, saveScoreCalls, otherVars>>

UseHint ==
    /\ GameScreen(gameState) /\ gameState.hints > 0 /\ ~gameState.showHint
    /\ Commit(useHint(gameState), audioRef)
    /\ UNCHANGED <<leaked, autoPlayTimers, ticksThisTurn, saveScoreCalls, otherVars>>

\* mutant: the Give Up button is still shown during the reveal
HandleRevealWhileRevealed ==
    /\ GameScreen(gameState)
    /\ CommitScored(handleReveal(gameState, audioRef), pauseAudio(audioRef), 1)
    /\ UNCHANGED <<leaked, autoPlayTimers, ticksThisTurn, saveScoreCalls, otherVars>>

HandleReveal ==
    /\ GameScreen(gameState) /\ ~gameState.showReveal
    /\ CommitScored(handleReveal(gameState, audioRef), pauseAudio(audioRef), 1)
    /\ UNCHANGED <<leaked, autoPlayTimers, ticksThisTurn, saveScoreCalls, otherVars>>

NextTurn ==
    /\ GameScreen(gameState) /\ gameState.showReveal
    /\ IF lastTurnReached(gameState)
       THEN EndGame(gameState)
       ELSE GenerateRandomTrack(nextTurn(gameState))
    /\ UNCHANGED otherVars

RestartGame ==
    /\ GameOverScreen(gameState)
    /\ Commit(restartGame(gameState), pauseAudio(audioRef))
    /\ ticksThisTurn' = 0
    /\ saveScoreCalls' = <<>>
    /\ UNCHANGED <<leaked, autoPlayTimers, otherVars>>

\* the callback of the timer effect's setTimeout.  An auto-play timeout (500 ms)
\* that is pending was set before the one-second timeout and fires before it.
Tick ==
    /\ timerRef
    /\ autoPlayTimers = 0
    /\ Commit([gameState EXCEPT !.timeLeft = gameState.timeLeft - 1], audioRef)
    /\ ticksThisTurn' = ticksThisTurn + 1
    /\ UNCHANGED <<leaked, autoPlayTimers, saveScoreCalls, otherVars>>

\* the promise of a backendApi.saveScore call settles: the score is stored, or
\* the call fails and endGame logs the error
SaveScoreSettles ==
    /\ \E i \in 1..Len(saveScoreCalls) : \E outcome \in {"saved", "failed"} :
          /\ saveScoreCalls[i].status = "pending"
          /\ saveScoreCalls' = [saveScoreCalls EXCEPT ![i].status = outcome]
    /\ UNCHANGED <<sessionVars, otherVars>>

(***************************************************************************)
(* Actions of the audio preview.                                           *)
(***************************************************************************)
\* the play button while gameState.isPlaying is false
PlayTrack ==
    /\ GameScreen(gameState) /\ ~gameState.isPlaying
    /\ HasPreview(gameState.currentTrack)
    /\ Commit([gameState EXCEPT !.isPlaying = TRUE], "playing")
    /\ UNCHANGED <<leaked, autoPlayTimers, ticksThisTurn, saveScoreCalls, otherVars>>

\* the play button while gameState.isPlaying is true
PauseTrack ==
    /\ GameScreen(gameState) /\ gameState.isPlaying
    /\ Commit(pauseTrack(gameState, audioRef), pauseAudio(audioRef))
    /\ UNCHANGED <<leaked, autoPlayTimers, ticksThisTurn, saveScoreCalls, otherVars>>

\* the 500 ms timeout of generateRandomTrack: audioRef.current = new Audio(...),
\* play(); the element audioRef held before is not paused
AutoPlayFire ==
    /\ autoPlayTimers > 0
    /\ autoPlayTimers' = autoPlayTimers - 1
    /\ leaked' = IF audioRef = "playing" THEN Min(leaked + 1, MaxLeaked) ELSE leaked
    /\ Commit([gameState EXCEPT !.isPlaying = TRUE], "playing")
    /\ UNCHANGED <<ticksThisTurn, saveScoreCalls, otherVars>>

\* onended of the element audioRef holds
AudioEnded ==
    /\ audioRef = "playing"
    /\ Commit([gameState EXCEPT !.isPlaying = FALSE], "paused")
    /\ UNCHANGED <<leaked, autoPlayTimers, ticksThisTurn, saveScoreCalls, otherVars>>

\* onended of an element audioRef no longer holds
LeakedEnded ==
    /\ leaked > 0
    /\ leaked' = leaked - 1
    /\ Commit([gameState EXCEPT !.isPlaying = FALSE], audioRef)
    /\ UNCHANGED <<autoPlayTimers, ticksThisTurn, saveScoreCalls, otherVars>>

(***************************************************************************)
(* Initial states and specifications.                                      *)
(***************************************************************************)
\* a catalog answer: tracks lo, lo+1, ... (n of them), with the previews the catalog has
Answer(site, lo, n, withPreview) ==
    [i \in 1..n |-> [id |-> lo + i - 1,
                     preview_url |-> IF (lo + i - 1) \in withPreview THEN lo + i - 1 ELSE 0,
                     ref |-> site]]

NoAnswer == <<>>

SessionRest ==
    /\ timerRef = FALSE
    /\ audioRef = "null"
    /\ leaked = 0
    /\ autoPlayTimers = 0
    /\ ticksThisTurn = 0
    /\ timeUpsThisTurn = 0
    /\ resolutionsThisTurn = 0
    /\ saveScoreCalls = <<>>

\* Spotimatch is not mounted: no list, no request in flight
NoSwipe ==
    [recommendations |-> <<>>, loading |-> FALSE, answers |-> <<>>,
     enhancingPreviews |-> FALSE, enhancement |-> Idle]

\* The component as mounted: nothing loaded yet.
InitMounted ==
    /\ gameState = InitialGameState
    /\ SessionRest
    /\ match = NoMatch
    /\ swipe = NoSwipe
    /\ loader = "medium"
    /\ quick = Idle
    /\ remaining = Idle

\* The pipeline has finished with a pool of n tracks, the first k with a preview.
InitLoaded(n, k) ==
    /\ catalog = [medium |-> Answer("medium", 1, n, 1..k), short |-> NoAnswer,
                  long |-> NoAnswer]
    /\ deezer = {}
    /\ gameState = [InitialGameState EXCEPT !.tracks = catalog.medium,
                                            !.initialTracksLoaded = TRUE,
                                            !.backgroundLoadingComplete = TRUE]
    /\ SessionRest
    /\ match = NoMatch
    /\ swipe = NoSwipe
    /\ failures = NoFailures
    /\ loader = "done"
    /\ quick = Done
    /\ remaining = Done

SessionNext ==
    \/ SetDifficulty \/ StartGame \/ SetGuess \/ HandleGuess \/ UseHint
    \/ HandleReveal \/ NextTurn \/ RestartGame \/ Tick \/ AutoPlayFire
    \/ SaveScoreSettles

SessionInit == user = TRUE /\ \E k \in 2..3 : InitLoaded(NumIds, k)

SpecSession == SessionInit /\ [][SessionNext]_vars

\* Sessions long enough to reach the last turn: every track of the pool has a
\* preview, and turns are resolved by a give-up or by the countdown.
TurnsNext ==
    \/ SetDifficulty \/ StartGame \/ HandleReveal \/ NextTurn \/ RestartGame
    \/ Tick \/ AutoPlayFire

TurnsInit == user \in BOOLEAN /\ InitLoaded(LongPool, LongPool)

SpecTurns == TurnsInit /\ [][TurnsNext]_vars

\* getTopTracks answers with at most `limit` tracks: tracksNeeded * 0.25 for
\* medium_term, Math.ceil(additionalNeeded / 2) for short_term and long_term
mediumLimit == tracksNeeded \div 4
additionalLimit(m) == (tracksNeeded - m + 1) \div 2

\* Answers over the small universe: medium_term is tracks 1..m, the others are any
\* run of at most MaxBatch tracks; each track has a catalog preview, a preview
\* Deezer finds, or none.
SmallCatalogs ==
    /\ \E P \in SUBSET Ids : \E D \in SUBSET (Ids \ P) :
       \E m \in 0..Min(MaxBatch, mediumLimit) :
       \E sLo \in Ids, lLo \in Ids :
       \E sN \in 0..Min(MaxBatch, NumIds - sLo + 1), lN \in 0..Min(MaxBatch, NumIds - lLo + 1) :
          /\ sN = 0 => sLo = 1
          /\ lN = 0 => lLo = 1
          /\ catalog = [medium |-> Answer("medium", 1, m, P),
                        short |-> Answer("short", sLo, sN, P),
                        long |-> Answer("long", lLo, lN, P)]
          /\ deezer = D

\* Answers as long as the limits allow: short_term follows medium_term, long_term
\* follows short_term or shares its last track; previews for all tracks or none.
FullCatalogs ==
    /\ \E m \in 0..mediumLimit : \E overlap \in 0..1 :
       \E allP \in BOOLEAN, allD \in BOOLEAN :
          LET h == additionalLimit(m)
              all == 1..(m + 2 * h)
              P == IF allP THEN all ELSE {}
          IN /\ catalog = [medium |-> Answer("medium", 1, m, P),
                           short |-> Answer("short", m + 1, h, P),
                           long |-> Answer("long", m + h + 1 - overlap, h, P)]
             /\ deezer = IF allD THEN all ELSE {}

PipelineNext ==
    \/ MediumArrives \/ QuickResolves \/ BackgroundArrives
    \/ RemainingStarts \/ RemainingResolves

PipelineInit ==
    user = TRUE /\ failures = NoFailures /\ InitMounted /\ (SmallCatalogs \/ FullCatalogs)

SpecPipeline == PipelineInit /\ [][PipelineNext]_vars

\* The session played while the pipeline is still running; turns are resolved by
\* a give-up.
PlayNext ==
    \/ PipelineNext
    \/ StartGame \/ HandleReveal \/ NextTurn \/ RestartGame \/ AutoPlayFire

PlayInit == user = TRUE /\ failures = NoFailures /\ InitMounted /\ SmallCatalogs

SpecPlay == PlayInit /\ [][PlayNext]_vars

\* The audio preview during sessions whose turns are resolved by a give-up.
AudioNext ==
    \/ StartGame \/ HandleReveal \/ NextTurn \/ RestartGame
    \/ PlayTrack \/ PauseTrack \/ AutoPlayFire \/ AudioEnded \/ LeakedEnded

AudioInit == user = TRUE /\ InitLoaded(NumIds, 3)

SpecAudio == AudioInit /\ [][AudioNext]_vars

(***************************************************************************)
(* States of the session, as the specification names them.                 *)
(***************************************************************************)
NotStarted(g) == ~g.gameStarted /\ ~g.gameOver
InProgress(g) == g.gameStarted /\ ~g.gameOver /\ ~g.showReveal
Revealing(g) == g.gameStarted /\ ~g.gameOver /\ g.showReveal
Ended(g) == g.gameOver

(***************************************************************************)
(* C1.  The cumulative score is never negative, whatever the sequence of   *)
(* guesses, hints, give-ups, time-outs, advances, starts and restarts.     *)
(***************************************************************************)
C1_ScoreNeverNegative == gameState.score >= 0

\* a give-up or time-out at a score the penalty would take below zero
C1_Witness ==
    /\ Revealing(gameState)
    /\ gameState.lastGuessResult = "wrong"
    /\ gameState.score = 0
    /\ gameState.turn >= 2

(***************************************************************************)
(* C2.  No track identifier appears twice in playedTracks, also while the  *)
(* pipeline merges the pool and replaces pool entries by enhanced ones.    *)
(***************************************************************************)
C2_NoTrackPlayedTwice ==
    \A i, j \in 1..Len(gameState.playedTracks) :
        i # j => gameState.playedTracks[i].id # gameState.playedTracks[j].id

\* a session that played a catalog object and objects both enhancements put in
\* the pool
C2_Witness ==
    /\ Len(gameState.playedTracks) >= 3
    /\ \E i \in 1..Len(gameState.playedTracks) : gameState.playedTracks[i].ref = "medium"
    /\ \E i \in 1..Len(gameState.playedTracks) : gameState.playedTracks[i].ref = "quick"
    /\ \E i \in 1..Len(gameState.playedTracks) :
           gameState.playedTracks[i].ref = "remaining"

(***************************************************************************)
(* C3.  The tick that ends the turnTimeLimit-th second of a turn in which  *)
(* nothing was submitted moves the session to Revealing with outcome       *)
(* wrong, lowers the score by 2 (floored at 0) and resets the streak; the  *)
(* countdown shows turnTimeLimit minus the ticks of the turn; and the      *)
(* time-up penalty is applied at most once in a turn.                      *)
(***************************************************************************)
C3_TimeUpOnce ==
    /\ [](gameState.gameStarted /\ ~gameState.gameOver
            => gameState.timeLeft = gameState.turnTimeLimit - ticksThisTurn)
    /\ [](timeUpsThisTurn <= 1)
    /\ [](InProgress(gameState) => timeUpsThisTurn = 0 /\ gameState.timeLeft > 0)
    /\ [][ InProgress(gameState) /\ ticksThisTurn' = gameState.turnTimeLimit
           /\ ticksThisTurn = gameState.turnTimeLimit - 1
           => /\ Revealing(gameState')
              /\ gameState'.lastGuessResult = "wrong"
              /\ gameState'.score = Max(0, gameState.score - 2)
              /\ gameState'.streak = 0
              /\ timeUpsThisTurn' = 1
              /\ ~timerRef' ]_vars

\* a turn that timed out with a positive score
C3_Witness ==
    /\ Revealing(gameState)
    /\ ticksThisTurn = gameState.turnTimeLimit
    /\ timeUpsThisTurn = 1
    /\ gameState.score > 0

(***************************************************************************)
(* C4.  A countdown timeout is pending only while the session is           *)
(* InProgress, and a step that counts a second down is taken from          *)
(* InProgress and leaves the turn and its track as they are: no tick of    *)
(* one turn reaches Revealing, Ended, NotStarted or a later turn.          *)
(***************************************************************************)
C4_TickCancelled ==
    /\ [](timerRef => InProgress(gameState) /\ gameState.timeLeft > 0)
    /\ [][ ticksThisTurn' = ticksThisTurn + 1
           => /\ InProgress(gameState)
              /\ gameState'.turn = gameState.turn
              /\ gameState'.currentTrack = gameState.currentTrack
              /\ gameState'.timeLeft = gameState.timeLeft - 1 ]_vars
    /\ [][ InProgress(gameState) /\ ~InProgress(gameState') => ~timerRef' ]_vars

\* a turn resolved by a guess while seconds were left: its timeout was cancelled
C4_Witness ==
    /\ Revealing(gameState)
    /\ gameState.timeLeft > 0
    /\ ticksThisTurn > 0
    /\ ~timerRef

(***************************************************************************)
(* C5.  A session is never started with fewer than 3 tracks with a         *)
(* preview; with 3 or more, start() can be taken and leaves the session    *)
(* InProgress in turn 1 with score 0, streak 0, the countdown at           *)
(* turnTimeLimit and exactly the selected track, a pool track with a       *)
(* preview, in the played list.                                            *)
(***************************************************************************)
C5_StartPrecondition ==
    /\ [](gameState.gameStarted => Len(tracksWithPreviews(gameState)) >= 3)
    /\ [](/\ NotStarted(gameState) /\ ~Loading /\ autoPlayTimers < MaxAutoPlay
          /\ Len(tracksWithPreviews(gameState)) >= 3
          => ENABLED (StartGame /\ gameState'.gameStarted))
    /\ [][ ~gameState.gameStarted /\ gameState'.gameStarted
           => /\ InProgress(gameState')
              /\ gameState'.turn = 1
              /\ gameState'.score = 0
              /\ gameState'.streak = 0
              /\ gameState'.timeLeft = gameState.turnTimeLimit
              /\ gameState'.playedTracks = <<gameState'.currentTrack>>
              /\ HasPreview(gameState'.currentTrack)
              /\ InSeq(gameState'.currentTrack, gameState.tracks) ]_vars

\* a session started on a pool with exactly 3 previews
C5_Witness ==
    /\ gameState.gameStarted
    /\ gameState.turn = 1
    /\ Len(tracksWithPreviews(gameState)) = 3
    /\ Len(gameState.tracks) > 3

(***************************************************************************)
(* C6.  The turn number never exceeds maxTurns of the configured           *)
(* difficulty.                                                             *)
(***************************************************************************)
C6_TurnWithinMaxTurns ==
    /\ gameState.turn <= gameState.maxTurns
    /\ gameState.maxTurns = difficultySettings[gameState.difficulty].maxTurns

\* a session ended by its last turn while unplayed tracks with a preview remain
C6_Witness ==
    /\ Ended(gameState)
    /\ gameState.turn = gameState.maxTurns
    /\ Len(availableTracks(gameState)) > 0

(***************************************************************************)
(* C10.  The settings are those of the table (easy 5 turns, 30 s, 5 hints, *)
(* x1; medium 10, 20 s, 3, x1.5; hard 15, 15 s, 1, x2); maxTurns and       *)
(* turnTimeLimit are always those of the selected difficulty, the hints    *)
(* are those of the selected difficulty whenever a session can start, a    *)
(* started session counts down from that difficulty's time limit, and a    *)
(* partial guess scores with that difficulty's multiplier.                 *)
(***************************************************************************)
C10_Table ==
    [easy   |-> [maxTurns |-> 5,  timeLimit |-> 30, scoreMultiplier10 |-> 10, hints |-> 5],
     medium |-> [maxTurns |-> 10, timeLimit |-> 20, scoreMultiplier10 |-> 15, hints |-> 3],
     hard   |-> [maxTurns |-> 15, timeLimit |-> 15, scoreMultiplier10 |-> 20, hints |-> 1]]

C10_DifficultyTable ==
    /\ [](\A d \in Difficulties : difficultySettings[d] = C10_Table[d])
    /\ [](/\ gameState.maxTurns = C10_Table[gameState.difficulty].maxTurns
          /\ gameState.turnTimeLimit = C10_Table[gameState.difficulty].timeLimit)
    /\ [](NotStarted(gameState)
            => gameState.hints = C10_Table[gameState.difficulty].hints)
    /\ [][ ~gameState.gameStarted /\ gameState'.gameStarted
           => /\ gameState'.difficulty = gameState.difficulty
              /\ gameState'.maxTurns = C10_Table[gameState.difficulty].maxTurns
              /\ gameState'.turnTimeLimit = C10_Table[gameState.difficulty].timeLimit
              /\ gameState'.timeLeft = C10_Table[gameState.difficulty].timeLimit
              /\ gameState'.hints = C10_Table[gameState.difficulty].hints ]_vars
    /\ [][ InProgress(gameState) /\ Revealing(gameState')
           /\ gameState'.lastGuessResult = "partial"
           => LET m10 == C10_Table[gameState.difficulty].scoreMultiplier10
              IN gameState'.score - gameState.score
                    \in {Round(5 * m10, 10), Round(5 * m10, 10) + Round(3 * m10, 10)} ]_vars

\* a hard session in its second turn, its single hint used and a guess already scored
C10_Witness ==
    /\ InProgress(gameState)
    /\ gameState.difficulty = "hard"
    /\ gameState.turn = 2
    /\ gameState.hints = 0
    /\ gameState.lastGuessResult = "null"
    /\ gameState.score > 0

(***************************************************************************)
(* C7.  When enhanceInitialTracksQuickly or                                *)
(* enhanceRemainingTracksInBackground writes back, the pool keeps its      *)
(* length and every entry its identifier; an entry keeps the preview it    *)
(* had, or gains the preview Deezer found for its own identifier.          *)
(***************************************************************************)
WritesBack ==
    \/ quick.st = "running" /\ quick'.st = "done"
    \/ remaining.st = "running" /\ remaining'.st = "done"

C7_WriteBackKeepsIdentifiers ==
    [][ WritesBack
        => /\ Len(gameState'.tracks) = Len(gameState.tracks)
           /\ \A p \in 1..Len(gameState.tracks) :
                LET old == gameState.tracks[p]
                    new == gameState'.tracks[p]
                IN /\ new.id = old.id
                   /\ HasPreview(old) => new = old
                   /\ ~HasPreview(old) =>
                         \/ new = old
                         \/ new.preview_url = old.id /\ old.id \in deezer ]_vars

\* both enhancements have written back into a pool the merge has extended
C7_Witness ==
    /\ quick.st = "done" /\ remaining.st = "done"
    /\ Len(gameState.tracks) > Len(catalog.medium)
    /\ \E p \in 1..Len(gameState.tracks) : gameState.tracks[p].ref = "quick"
    /\ \E p \in 1..Len(gameState.tracks) : gameState.tracks[p].ref = "remaining"
    /\ \E p \in 1..Len(gameState.tracks) : ~HasPreview(gameState.tracks[p])

(***************************************************************************)
(* C8.  At most one audio preview is playing at any time.                  *)
(***************************************************************************)
Playbacks == leaked + (IF audioRef = "playing" THEN 1 ELSE 0)

C8_AtMostOnePlayback == Playbacks <= 1

(***************************************************************************)
(* C9.  The merge of loadAdditionalTracksInBackground keeps, in the order  *)
(* existing pool, short-term, long-term, the first occurrence of each of   *)
(* the first 25 distinct identifiers, and nothing else: no identifier has  *)
(* two entries, and an identifier has none only when 25 distinct           *)
(* identifiers come before it.                                             *)
(***************************************************************************)
Merges == loader = "more" /\ loader' = "delay"

MergeInput == gameState.tracks \o catalog.short \o catalog.long

FirstIndexOf(id, seq) ==
    CHOOSE i \in 1..Len(seq) : seq[i].id = id /\ \A j \in 1..(i - 1) : seq[j].id # id

IdsBefore(i, seq) == {seq[j].id : j \in 1..(i - 1)}

EntriesOf(id, seq) == {p \in 1..Len(seq) : seq[p].id = id}

C9_MergeKeepsFirstOccurrences ==
    [][ Merges
        => LET all == MergeInput
               pool == gameState'.tracks
           IN /\ \A p \in 1..Len(pool) :
                    /\ Cardinality(EntriesOf(pool[p].id, pool)) = 1
                    /\ pool[p] = all[FirstIndexOf(pool[p].id, all)]
              /\ \A p, q \in 1..Len(pool) :
                    p < q => FirstIndexOf(pool[p].id, all) < FirstIndexOf(pool[q].id, all)
              /\ \A i \in 1..Len(all) :
                    EntriesOf(all[i].id, pool) = {}
                       => Cardinality(IdsBefore(i, all)) >= maxTurnsNeeded + 10 ]_vars

\* the claim as stated: exactly one entry for every identifier of the input
C9_ExactlyOneEntryPerIdentifier ==
    [][ Merges
        => LET all == MergeInput
               pool == gameState'.tracks
           IN \A i \in 1..Len(all) :
                 /\ Cardinality(EntriesOf(all[i].id, pool)) = 1
                 /\ \A p \in EntriesOf(all[i].id, pool) :
                       pool[p] = all[FirstIndexOf(all[i].id, all)] ]_vars

\* a merge of overlapping answers that had to drop a track
C9_Witness ==
    /\ loader \in {"delay", "done"}
    /\ Len(gameState.tracks) = maxTurnsNeeded + 10
    /\ \E i \in 1..Len(catalog.long) :
          EntriesOf(catalog.long[i].id, gameState.tracks) = {}
    /\ \E i \in 1..Len(catalog.short) : \E p \in 1..Len(gameState.tracks) :
          /\ gameState.tracks[p].id = catalog.short[i].id
          /\ gameState.tracks[p].ref # "short"

(***************************************************************************)
(* C11.  With difficulty easy and a pool of 5 tracks that all have a       *)
(* preview, a session whose turns all end with a give-up followed by an    *)
(* advance ends after the fifth turn, in Ended, with score 0 and 5         *)
(* distinct tracks played.                                                 *)
(***************************************************************************)
\* Sessions whose turns are all resolved by a give-up, over a pool of 5 tracks.
ScenarioNext ==
    \/ SetDifficulty \/ StartGame \/ HandleReveal \/ NextTurn \/ RestartGame
    \/ AutoPlayFire

ScenarioInit == user = TRUE /\ InitLoaded(ScenarioPool, ScenarioPool)

SpecScenario == ScenarioInit /\ [][ScenarioNext]_vars

C11_GiveUpSession ==
    /\ [](Ended(gameState) /\ gameState.difficulty = "easy"
             => /\ gameState.score = 0
                /\ gameState.turn = 5
                /\ Len(gameState.playedTracks) = 5
                /\ Cardinality({gameState.playedTracks[i].id :
                                   i \in 1..Len(gameState.playedTracks)}) = 5)
    /\ [][gameState.difficulty = "easy" /\ Revealing(gameState)
              /\ ~Revealing(gameState')
             => IF gameState.turn = 5
                THEN Ended(gameState')
                ELSE InProgress(gameState') /\ gameState'.turn = gameState.turn + 1]_vars

\* an easy session has ended after five give-ups
C11_Witness ==
    /\ Ended(gameState)
    /\ gameState.difficulty = "easy"
    /\ gameState.lastGuessResult = "wrong"
    /\ Len(gameState.playedTracks) = 5
    /\ resolutionsThisTurn = 1

(***************************************************************************)
(* The classification of guesses: a session in its first turn, the current *)
(* track any track of GuessCatalog, any text typed into the guess box.     *)
(***************************************************************************)
GuessChars == {"a", "p", "z", "A", " ", "!"}
GuessTexts == UNION {[1..n -> GuessChars] : n \in 0..MaxGuessLen}

GuessPool ==
    [i \in 1..Len(GuessCatalog) |-> [id |-> 0 - i, preview_url |-> i, ref |-> "medium"]]

GuessInit ==
    /\ user = TRUE
    /\ catalog = [medium |-> GuessPool, short |-> NoAnswer, long |-> NoAnswer]
    /\ deezer = {}
    /\ failures = NoFailures
    /\ \E k \in 1..Len(GuessPool) : \E text \in GuessTexts :
          gameState =
             [selectTrack(startGame([InitialGameState EXCEPT
                                        !.tracks = GuessPool,
                                        !.initialTracksLoaded = TRUE,
                                        !.backgroundLoadingComplete = TRUE]),
                          GuessPool[k])
                EXCEPT !.guess = text, !.isPlaying = TRUE]
    /\ timerRef = TRUE
    /\ audioRef = "playing"
    /\ leaked = 0
    /\ autoPlayTimers = 0
    /\ ticksThisTurn = 0
    /\ timeUpsThisTurn = 0
    /\ resolutionsThisTurn = 0
    /\ saveScoreCalls = <<>>
    /\ match = NoMatch
    /\ swipe = NoSwipe
    /\ loader = "done"
    /\ quick = Done
    /\ remaining = Done

GuessNext == HandleGuess

SpecGuess == GuessInit /\ [][GuessNext]_vars

\* `${trackName} ${artistName}` of the current track
CombinedName(g) ==
    TrackName(g.currentTrack.id) \o <<" ">> \o ArtistName(g.currentTrack.id)

(***************************************************************************)
(* C12.  A non-empty guess that equals, after normalization, the           *)
(* normalized "title artist" of the current track is classified correct.   *)
(***************************************************************************)
C12_FullAnswerIsCorrect ==
    /\ resolutionsThisTurn = 1
    /\ trim(gameState.guess) # <<>>
    /\ normalizeString(gameState.guess) = normalizeString(CombinedName(gameState))
    => gameState.lastGuessResult = "correct"

\* the full answer was submitted with other case, punctuation and spacing
C12_Witness ==
    /\ resolutionsThisTurn = 1
    /\ gameState.showReveal
    /\ gameState.guess # CombinedName(gameState)
    /\ IsIn("!", gameState.guess) /\ IsIn("A", gameState.guess)
    /\ normalizeString(gameState.guess) = normalizeString(CombinedName(gameState))
    /\ gameState.lastGuessResult = "correct"
    /\ gameState.score > 0

(***************************************************************************)
(* C13.  A guess equal to only the primary artist's name, where the artist *)
(* name shares no token with the title, is classified partial if its       *)
(* similarity is at least 0.6 and wrong otherwise.                         *)
(***************************************************************************)
TokensOf(str) == {split(normalizeString(str))[i] : i \in 1..Len(split(normalizeString(str)))}

SimilarEnough(g) ==
    \/ AtLeastTenths(calculateSimilarity(g.guess, TrackName(g.currentTrack.id)), 6)
    \/ AtLeastTenths(calculateSimilarity(g.guess, ArtistName(g.currentTrack.id)), 6)
    \/ AtLeastTenths(calculateSimilarity(g.guess, CombinedName(g)), 6)

C13_ArtistOnlyIsPartialOrWrong ==
    /\ resolutionsThisTurn = 1
    /\ gameState.guess = ArtistName(gameState.currentTrack.id)
    /\ TokensOf(ArtistName(gameState.currentTrack.id))
          \cap TokensOf(TrackName(gameState.currentTrack.id)) = {}
    => gameState.lastGuessResult = IF SimilarEnough(gameState) THEN "partial" ELSE "wrong"

(***************************************************************************)
(* Spotimatch: the reasons and the similarity score of one recommendation. *)
(* Popularity is 0..100; energy, valence and danceability are kept in      *)
(* hundredths (0.55 is 55); the score is kept in twentieths (100 is 2000), *)
(* which makes audioSimilarity * 15 the integer 300 - (sum of the three    *)
(* differences in hundredths).                                             *)
(***************************************************************************)
Abs(x) == IF x < 0 THEN 0 - x ELSE x

\* reason.includes("genre"): only the genre reason contains the word
IsGenreReason(reason) == reason = "Similar to pop genre"

generateMatchReasons(seed, rec) ==
    LET both == seed.features.present /\ rec.features.present
        energyDiff == Abs(seed.features.energy - rec.features.energy)
        valenceDiff == Abs(seed.features.valence - rec.features.valence)
        danceabilityDiff == Abs(seed.features.danceability - rec.features.danceability)
        reasons ==
            (IF seed.artist = rec.artist THEN <<"Same artist">> ELSE <<>>)
         \o (IF seed.genres THEN <<"Similar to pop genre">> ELSE <<>>)
         \o (IF Abs(seed.popularity - rec.popularity) < 15
             THEN <<"Similar popularity level">> ELSE <<>>)
         \o (IF both /\ energyDiff < 20 THEN <<"Similar energy level">> ELSE <<>>)
         \o (IF both /\ valenceDiff < 20 THEN <<"Similar mood/vibe">> ELSE <<>>)
         \o (IF both /\ danceabilityDiff < 20 THEN <<"Similar danceability">> ELSE <<>>)
         \o (IF seed.preview /\ rec.preview THEN <<"Both have audio previews">> ELSE <<>>)
    IN IF Len(reasons) = 0 THEN <<"Recommended by Spotify algorithm">> ELSE reasons

\* the score before the final Math.min, in twentieths
accumulatedScore(seed, rec, reasons) ==
    LET has(r) == \E i \in 1..Len(reasons) : reasons[i] = r
        both == seed.features.present /\ rec.features.present
        diffs == Abs(seed.features.energy - rec.features.energy)
                 + Abs(seed.features.valence - rec.features.valence)
                 + Abs(seed.features.danceability - rec.features.danceability)
        popularityScore == Min(rec.popularity, 100)
    IN 20 * 50
       + (IF has("Same artist") THEN 20 * 40 ELSE 0)
       + (IF has("Similar popularity level") THEN 20 * 10 ELSE 0)
       + (IF \E i \in 1..Len(reasons) : IsGenreReason(reasons[i]) THEN 20 * 15 ELSE 0)
       + (IF has("Similar energy level") THEN 20 * 12 ELSE 0)
       + (IF has("Similar mood/vibe") THEN 20 * 12 ELSE 0)
       + (IF has("Similar danceability") THEN 20 * 8 ELSE 0)
       + (IF has("Both have audio previews") THEN 20 * 5 ELSE 0)
       + (IF both THEN 300 - diffs ELSE 0)
       + (IF popularityScore > 20 /\ popularityScore < 80 THEN 20 * 5 ELSE 0)

\* mutant: the score is returned as accumulated
calculateEnhancedSimilarityScoreUnclamped(seed, rec, reasons) ==
    accumulatedScore(seed, rec, reasons)

\* calculateEnhancedSimilarityScore, in twentieths: Math.min(score, 100)
calculateEnhancedSimilarityScore(seed, rec, reasons) ==
    Min(accumulatedScore(seed, rec, reasons), 20 * 100)

\* recs.tracks.map(...): one recommendation is given its reasons and its score
ProcessRecommendation ==
    /\ match.st = "fetched"
    /\ LET reasons == generateMatchReasons(match.seed, match.rec)
       IN match' = [match EXCEPT
                       !.st = "processed",
                       !.reasons = reasons,
                       !.similarity_score =
                           calculateEnhancedSimilarityScore(match.seed, match.rec, reasons)]
    /\ UNCHANGED <<sessionVars, pipelineVars, user, saveScoreCalls, swipe>>

NoFeatures == [present |-> FALSE, energy |-> 0, valence |-> 0, danceability |-> 0]
Features(e, v, d) == [present |-> TRUE, energy |-> e, valence |-> v, danceability |-> d]

\* The seed track and one recommended track, as the catalog answers them.
MatchInit ==
    /\ user = TRUE
    /\ gameState = InitialGameState
    /\ SessionRest
    /\ catalog = [medium |-> NoAnswer, short |-> NoAnswer, long |-> NoAnswer]
    /\ deezer = {}
    /\ failures = NoFailures
    /\ swipe = NoSwipe
    /\ loader = "medium"
    /\ quick = Idle
    /\ remaining = Idle
    /\ \E recArtist \in 1..2, genres \in BOOLEAN, seedPreview \in BOOLEAN,
          recPreview \in BOOLEAN :
       \E seedPopularity \in {50, 90} :
       \E recPopularity \in {0, 20, 21, 45, 55, 64, 65, 79, 80, 100} :
       \E seedFeatures \in {NoFeatures, Features(50, 40, 60)} :
       \E recFeatures \in {NoFeatures} \cup
                           {Features(e, v, d) : e \in {25, 45, 55, 75, 100},
                                                v \in {15, 40, 100},
                                                d \in {0, 45, 60}} :
          match = [st |-> "fetched",
                   seed |-> [artist |-> 1, genres |-> genres, popularity |-> seedPopularity,
                             preview |-> seedPreview, features |-> seedFeatures],
                   rec |-> [artist |-> recArtist, genres |-> FALSE,
                            popularity |-> recPopularity,
                            preview |-> recPreview, features |-> recFeatures],
                   reasons |-> <<>>,
                   similarity_score |-> 0]

MatchNext == ProcessRecommendation

SpecMatch == MatchInit /\ [][MatchNext]_vars

(***************************************************************************)
(* C14.  The similarity score of a recommendation never exceeds 100; a     *)
(* same-artist candidate with popularity difference 5 and energy, valence  *)
(* and danceability differences 0.05, 0 and 0 accumulates more than 100    *)
(* and is reported as exactly 100.                                         *)
(***************************************************************************)
ExampleMatch ==
    /\ match.seed.artist = match.rec.artist
    /\ Abs(match.seed.popularity - match.rec.popularity) = 5
    /\ match.seed.features.present /\ match.rec.features.present
    /\ Abs(match.seed.features.energy - match.rec.features.energy) = 5
    /\ match.seed.features.valence = match.rec.features.valence
    /\ match.seed.features.danceability = match.rec.features.danceability

C14_ScoreAtMost100 ==
    match.st = "processed"
    => /\ match.similarity_score <= 20 * 100
       /\ ExampleMatch
          => /\ accumulatedScore(match.seed, match.rec, match.reasons) > 20 * 100
             /\ match.similarity_score = 20 * 100

\* the example: same artist, popularity 50 and 55, energy 0.50 and 0.55
C14_Witness ==
    /\ match.st = "processed"
    /\ ExampleMatch
    /\ ~match.seed.genres
    /\ match.similarity_score = 20 * 100
    /\ Len(match.reasons) = 5

(***************************************************************************)
(* C15.  Once the session is Ended, its score, streak and last outcome do  *)
(* not change until the restart: the step that ends the session and every  *)
(* step after it leave them as the last resolved turn set them, also when  *)
(* that turn ended by time-out with 0 seconds remaining.                   *)
(***************************************************************************)
C15_EndedKeepsScore ==
    [][Ended(gameState')
         => /\ gameState'.score = gameState.score
            /\ gameState'.streak = gameState.streak
            /\ gameState'.lastGuessResult = gameState.lastGuessResult]_vars

(***************************************************************************)
(* Sessions over a pool of 5 tracks with previews in which hints are used  *)
(* and turns are resolved by a give-up or by the countdown: easy ends at   *)
(* its last turn, medium and hard run out of tracks.                       *)
(***************************************************************************)
AdvanceNext ==
    \/ SetDifficulty \/ StartGame \/ UseHint \/ HandleReveal \/ NextTurn
    \/ RestartGame \/ Tick \/ AutoPlayFire

AdvanceInit == user = TRUE /\ InitLoaded(ScenarioPool, ScenarioPool)

SpecAdvance == AdvanceInit /\ [][AdvanceNext]_vars

\* a pool track with a preview that has not been played
Unplayed(g, t) == InSeq(t, g.tracks) /\ HasPreview(t) /\ ~InSeq(t, g.playedTracks)

\* nextTurn has started the next turn
Advanced ==
    /\ gameState'.turn = gameState.turn + 1
    /\ ~gameState'.showReveal
    /\ ~gameState'.showHint
    /\ InProgress(gameState')
    /\ gameState'.timeLeft = gameState.turnTimeLimit
    /\ Unplayed(gameState, gameState'.currentTrack)

(***************************************************************************)
(* C16.  nextTurn from Revealing moves the session to Ended when turn =    *)
(* maxTurns, and otherwise increments the turn by exactly 1, clears the    *)
(* reveal and hint flags and selects the next track, returning to          *)
(* InProgress with the countdown reset to turnTimeLimit.                   *)
(***************************************************************************)
C16_AdvanceEndsOnlyAtMaxTurns ==
    [][NextTurn /\ Revealing(gameState)
         => IF gameState.turn = gameState.maxTurns
            THEN Ended(gameState')
            ELSE Advanced]_vars

\* C16 as amended: the session also moves to Ended when no pool track with a
\* preview remains unplayed; otherwise the next turn starts as stated.
C16_AdvanceEndsOrStartsTurn ==
    [][NextTurn /\ Revealing(gameState)
         => IF gameState.turn = gameState.maxTurns
               \/ \A i \in 1..Len(gameState.tracks) :
                      ~Unplayed(gameState, gameState.tracks[i])
            THEN Ended(gameState')
            ELSE Advanced]_vars

\* the second turn has started after a first turn in which the hint was shown
C16_Witness ==
    /\ InProgress(gameState)
    /\ gameState.turn = 2
    /\ Len(gameState.playedTracks) = 2
    /\ gameState.hints < difficultySettings[gameState.difficulty].hints
    /\ ~gameState.showHint
    /\ gameState.timeLeft = gameState.turnTimeLimit
    /\ autoPlayTimers = 1

(***************************************************************************)
(* C17.  When generateRandomTrack finds no pool track that has a preview   *)
(* and has not been played, the session moves to Ended instead of starting *)
(* a turn, and no track is added to the played tracks.                     *)
(***************************************************************************)
\* a step of a handler that calls generateRandomTrack
SelectsNextTrack ==
    \/ NextTurn /\ Revealing(gameState) /\ gameState.turn < gameState.maxTurns
    \/ StartGame /\ canStart(gameState)

C17_NoContentEndsSession ==
    [][/\ SelectsNextTrack
       /\ \A i \in 1..Len(gameState.tracks) : ~Unplayed(gameState, gameState.tracks[i])
       => /\ Ended(gameState')
          /\ gameState'.playedTracks = gameState.playedTracks
          /\ gameState'.currentTrack = gameState.currentTrack]_vars

\* the session has ended before its last turn: the sixth turn found no track
C17_Witness ==
    /\ Ended(gameState)
    /\ gameState.turn = Len(gameState.playedTracks) + 1
    /\ gameState.turn <= gameState.maxTurns
    /\ \A i \in 1..Len(gameState.tracks) : InSeq(gameState.tracks[i], gameState.playedTracks)

(***************************************************************************)
(* C18.  A session that has reached Ended with a signed-in player has      *)
(* issued exactly one saveScore call, carrying the session's final score,  *)
(* difficulty, streak and number of turns completed, whether the call is   *)
(* pending, has succeeded or has failed; before that it has issued none.   *)
(***************************************************************************)
C18_OneSaveScoreWithFinalScore ==
    /\ ~Ended(gameState) => saveScoreCalls = <<>>
    /\ Ended(gameState) /\ user
       => /\ Len(saveScoreCalls) = 1
          /\ saveScoreCalls[1].score = gameState.score
          /\ saveScoreCalls[1].difficulty = gameState.difficulty
          /\ saveScoreCalls[1].streak = gameState.streak
          /\ saveScoreCalls[1].turns_completed = Len(gameState.playedTracks)

(***************************************************************************)
(* C19.  Each turn is resolved once: between the selection of a turn's     *)
(* track and the next advance at most one of a scored guess, a give-up     *)
(* penalty and a time-up penalty is applied, whatever the order of guess   *)
(* submissions, give-ups and ticks; none is applied while the turn is in   *)
(* progress and one has been applied when the answer is revealed.          *)
(***************************************************************************)
C19_TurnResolvedOnce ==
    /\ resolutionsThisTurn <= 1
    /\ InProgress(gameState) => resolutionsThisTurn = 0
    /\ Revealing(gameState) => resolutionsThisTurn = 1

\* a guess was scored in the last second of the countdown
C19_Witness ==
    /\ Revealing(gameState)
    /\ gameState.lastGuessResult = "correct"
    /\ gameState.timeLeft = 1
    /\ ticksThisTurn = gameState.turnTimeLimit - 1
    /\ timeUpsThisTurn = 0
    /\ resolutionsThisTurn = 1

(***************************************************************************)
(* C20.  The final pool (its entries and the preview URL of each) is the   *)
(* same for every order in which the quick enhancement of the first 3      *)
(* tracks, the merge of the background batches and the enhancement of the  *)
(* remaining tracks resolve, and applying an enhancement result a second   *)
(* time leaves the pool unchanged.                                         *)
(***************************************************************************)
\* the entries of a pool and their preview URLs
PoolView(tracks) == [i \in 1..Len(tracks) |-> <<tracks[i].id, tracks[i].preview_url>>]

\* all asynchronous work of the pipeline has resolved
PipelineFinished == loader = "done" /\ quick.st # "running" /\ remaining.st = "done"

QuickResult == enhanceTracksWithPreviewUrls(sliceTo(catalog.medium, 3), deezer, "quick")

RemainingResult ==
    enhanceTracksWithPreviewUrls(
        sliceFrom(mergeTracks(catalog.medium, catalog.short, catalog.long), 3),
        deezer, "remaining")

\* the pool when the three resolve in the order quick, merge, remaining
PoolInOrder ==
    remainingWriteBack(
        mergeTracks(quickWriteBack(catalog.medium, QuickResult),
                    catalog.short, catalog.long),
        RemainingResult)

C20_PoolIndependentOfOrder ==
    PipelineFinished
    => /\ PoolView(gameState.tracks) = PoolView(PoolInOrder)
       /\ PoolView(quickWriteBack(gameState.tracks, QuickResult)) = PoolView(gameState.tracks)
       /\ PoolView(remainingWriteBack(gameState.tracks, RemainingResult))
             = PoolView(gameState.tracks)

\* all three have written to the pool: it holds a track of the quick enhancement,
\* a merged track and a track of the enhancement of the remaining tracks
C20_Witness ==
    /\ PipelineFinished
    /\ \E i, j, k \in 1..Len(gameState.tracks) :
          /\ gameState.tracks[i].ref = "quick"
          /\ gameState.tracks[j].ref \in {"short", "long"}
          /\ gameState.tracks[k].ref = "remaining"

(***************************************************************************)
(* C21.  Every pool track whose preview URL is null has a preview lookup   *)
(* attempted for it, by the quick enhancement or by the enhancement of the *)
(* remaining tracks, whatever the size of the medium-term answer: once the *)
(* pipeline has finished, no pool track is without a preview that a lookup *)
(* for it would have found.                                                *)
(***************************************************************************)
C21_EveryNullTrackLookedUp ==
    PipelineFinished
    => \A i \in 1..Len(gameState.tracks) :
          ~HasPreview(gameState.tracks[i]) => gameState.tracks[i].id \notin deezer

(***************************************************************************)
(* The pipeline with failing requests: any preview lookups of the first    *)
(* tracks throw, any of the three catalog fetches rejects.                 *)
(***************************************************************************)
FetchRanges == {"medium", "short", "long"}

FailuresInit ==
    /\ user = TRUE
    /\ InitMounted
    /\ FullCatalogs
    /\ failures \in [lookups : SUBSET Ids, fetches : SUBSET FetchRanges]

SpecFailures == FailuresInit /\ [][PipelineNext]_vars

\* the enhancement run `run`, whose input started at pool position offset + 1,
\* resolves in this step
RunResolves(run, runAfter) == run.st = "running" /\ runAfter.st = "done"

\* after the step every successful lookup of the run is in the pool at its track
\* and every track whose lookup failed or found nothing still has no preview
RunApplied(run, offset) ==
    \A i \in 1..Len(run.input) :
       LET t == run.input[i]
           after == gameState'.tracks[i + offset]
       IN /\ after.id = t.id
          /\ HasPreview(t) => after = t
          /\ (~HasPreview(t) /\ t.id \in deezer /\ t.id \notin failures.lookups)
                => after.preview_url = t.id
          /\ (~HasPreview(t) /\ (t.id \notin deezer \/ t.id \in failures.lookups))
                => ~HasPreview(after)

\* the identifiers a pool holds, in order
PoolIds(tracks) == [i \in 1..Len(tracks) |-> tracks[i].id]

\* the answers of the fetches that did not fail
Answered(range) == IF range \in failures.fetches THEN <<>> ELSE catalog[range]

\* a failed fetch contributes no track and the later steps have run
FetchesTolerated ==
    /\ loader # "medium" /\ "medium" \in failures.fetches => quick.st = "idle"
    /\ loader \in {"delay", "done"}
          => /\ gameState.backgroundLoadingComplete
             /\ PoolIds(gameState.tracks)
                   = PoolIds(mergeTracks(Answered("medium"), Answered("short"),
                                         Answered("long")))
    /\ loader = "done" => remaining.st # "idle"

(***************************************************************************)
(* C22.  A failed preview lookup or a failed catalog fetch never aborts    *)
(* the pipeline: when an enhancement run resolves, every successful lookup *)
(* of the run is applied to its track and a track whose lookup failed      *)
(* keeps a null preview; a failed catalog fetch contributes zero tracks to *)
(* the pool and the merge and the enhancement of the remaining tracks      *)
(* still take place.                                                       *)
(***************************************************************************)
C22_FailuresNeverAbort ==
    /\ []FetchesTolerated
    /\ [][/\ RunResolves(quick, quick') => RunApplied(quick, 0)
          /\ RunResolves(remaining, remaining') => RunApplied(remaining, 3)]_vars

\* the pipeline has finished after a failed fetch, and the quick enhancement had a
\* lookup that failed next to one that was applied
C22_Witness ==
    /\ PipelineFinished
    /\ failures.fetches # {}
    /\ quick.st = "done"
    /\ \E i, j \in 1..Min(3, Len(gameState.tracks)) :
          /\ gameState.tracks[i].id \in failures.lookups
          /\ ~HasPreview(gameState.tracks[i])
          /\ gameState.tracks[j].ref = "quick"

(***************************************************************************)
(* C23.  handleGuess with an empty or whitespace-only guess, or with no    *)
(* current track, changes nothing: score, streak, last outcome, reveal     *)
(* flag and countdown (and every other field of the session, the timer and *)
(* the audio) are as before.                                               *)
(***************************************************************************)
BlankGuess(g) == g.currentTrack = NoTrack \/ trim(g.guess) = <<>>

C23_BlankGuessChangesNothing ==
    [][HandleGuess /\ BlankGuess(gameState)
          => /\ gameState' = gameState
             /\ handleGuess(gameState, audioRef) = gameState
             /\ UNCHANGED <<timerRef, audioRef>>]_vars

\* a whitespace-only guess is in the box of an unresolved turn, with a score and a
\* streak to lose and the countdown running
C23_Witness ==
    /\ GameScreen(gameState) /\ ~gameState.showReveal
    /\ gameState.guess # <<>> /\ trim(gameState.guess) = <<>>
    /\ gameState.score > 0 /\ gameState.streak > 0
    /\ gameState.timeLeft < gameState.turnTimeLimit

(***************************************************************************)
(* C24.  The score delta of a guess is round(10 x multiplier x (1 + streak *)
(* x 0.1)) for correct, with the streak as it was before the guess,        *)
(* round(5 x multiplier) for partial and -2 for wrong, plus round(3 x      *)
(* multiplier) for a correct or partial guess when the remaining seconds   *)
(* strictly exceed 70% of turnTimeLimit; the new score is max(0, old score *)
(* + delta).                                                               *)
(***************************************************************************)
\* the multiplier of the table, in tenths
Multiplier10(g) ==
    CASE g.difficulty = "easy" -> 10 [] g.difficulty = "medium" -> 15 [] OTHER -> 20

\* the delta the claim states, for outcome `result` of a guess made in state g
ClaimedDelta(g, result) ==
    LET base == CASE result = "correct" -> Round(Multiplier10(g) * (10 + g.streak), 10)
                  [] result = "partial" -> Round(5 * Multiplier10(g), 10)
                  [] OTHER -> 0 - 2
        bonus == IF result \in {"correct", "partial"}
                    /\ 100 * g.timeLeft > 70 * g.turnTimeLimit
                 THEN Round(3 * Multiplier10(g), 10) ELSE 0
    IN base + bonus

C24_ScoreDelta ==
    [][HandleGuess /\ ~BlankGuess(gameState)
          => /\ gameState'.lastGuessResult \in {"correct", "partial", "wrong"}
             /\ gameState'.score
                   = Max(0, gameState.score
                              + ClaimedDelta(gameState, gameState'.lastGuessResult))]_vars

\* a correct guess was scored on top of a streak, at exactly 70% of the time limit
C24_Witness ==
    /\ Revealing(gameState)
    /\ resolutionsThisTurn = 1
    /\ gameState.lastGuessResult = "correct"
    /\ gameState.streak >= 2
    /\ 10 * gameState.timeLeft = 7 * gameState.turnTimeLimit
    /\ gameState.score > 0

(***************************************************************************)
(* C25.  The streak is the number of consecutive most recent turns         *)
(* resolved as correct or partial: the step that resolves a turn as        *)
(* correct or partial adds exactly 1 to it; a wrong guess, a give-up, a    *)
(* time-out, the start of a session and a restart set it to 0; no other    *)
(* step changes it.                                                        *)
(***************************************************************************)
\* the step reveals the answer
Resolves == ~gameState.showReveal /\ gameState'.showReveal
Starts == ~gameState.gameStarted /\ gameState'.gameStarted
Restarts == gameState.gameOver /\ ~gameState'.gameOver

C25_StreakCountsResolvedTurns ==
    [][/\ Resolves /\ gameState'.lastGuessResult \in {"correct", "partial"}
             => gameState'.streak = gameState.streak + 1
       /\ Resolves /\ gameState'.lastGuessResult \notin {"correct", "partial"}
             => gameState'.streak = 0
       /\ Starts \/ Restarts => gameState'.streak = 0
       /\ ~Resolves /\ ~Starts /\ ~Restarts => gameState'.streak = gameState.streak
       /\ HandleReveal \/ (Tick /\ Resolves) => gameState'.streak = 0]_vars

\* two turns in a row were resolved by a scoring guess, the second one partial
C25_Witness ==
    /\ Revealing(gameState)
    /\ gameState.turn = 2
    /\ gameState.streak = 2
    /\ gameState.lastGuessResult = "partial"

(***************************************************************************)
(* C26.  useHint changes state only when the hint allowance is above 0 and *)
(* no hint is shown for the current turn; it then lowers the allowance by  *)
(* exactly 1, lowers the score by 1 floored at 0 and marks the hint shown. *)
(* So the allowance is never negative, at most one hint is consumed per    *)
(* turn (the mark is only cleared when the turn or the track changes or    *)
(* the session is over), and the hints consumed in a session never exceed  *)
(* the difficulty's allowance (a session starts with the full allowance,   *)
(* which only useHint changes inside a session).                           *)
(***************************************************************************)
Allowance(g) == difficultySettings[g.difficulty].hints

HintRefused(g) == g.hints <= 0 \/ g.showHint

C26_HintAllowance ==
    /\ [](/\ gameState.hints \in 0..Allowance(gameState)
          /\ HintRefused(gameState) => useHint(gameState) = gameState
          /\ ~HintRefused(gameState)
                => useHint(gameState) =
                      [gameState EXCEPT !.hints = gameState.hints - 1,
                                        !.score = Max(0, gameState.score - 1),
                                        !.showHint = TRUE])
    /\ [][/\ UseHint => ~HintRefused(gameState) /\ gameState' = useHint(gameState)
          /\ Starts => gameState'.hints = Allowance(gameState')
          /\ gameState'.hints # gameState.hints
                => \/ UseHint /\ gameState'.hints = gameState.hints - 1
                   \/ ~gameState'.gameStarted /\ gameState'.hints = Allowance(gameState')
          /\ gameState.showHint /\ ~gameState'.showHint
                => \/ gameState'.turn # gameState.turn
                   \/ gameState'.currentTrack # gameState.currentTrack
                   \/ gameState'.gameOver]_vars

\* the last hint of the allowance is shown in turn 2 and cost the only point
C26_Witness ==
    /\ InProgress(gameState)
    /\ gameState.turn = 2
    /\ gameState.showHint
    /\ gameState.hints = 0
    /\ gameState.score = 0

(***************************************************************************)
(* C27.  handleReveal moves the session to Revealing with outcome wrong,   *)
(* lowers the score by 3 floored at 0 and resets the streak to 0, without  *)
(* evaluating the guess text (whatever is in the guess box, the result is  *)
(* the same and the text stays) and without changing the turn, the hints,  *)
(* the played set or the current track.                                    *)
(***************************************************************************)
C27_GiveUp ==
    [][HandleReveal
          => /\ Revealing(gameState')
             /\ gameState'.lastGuessResult = "wrong"
             /\ gameState'.score = Max(0, gameState.score - 3)
             /\ gameState'.streak = 0
             /\ gameState'.turn = gameState.turn
             /\ gameState'.hints = gameState.hints
             /\ gameState'.playedTracks = gameState.playedTracks
             /\ gameState'.currentTrack = gameState.currentTrack
             /\ gameState'.guess = gameState.guess
             /\ \A text \in Guesses :
                   handleReveal([gameState EXCEPT !.guess = text], audioRef)
                      = [gameState' EXCEPT !.guess = text]]_vars

\* the player gave up, before the countdown ran out, with an answer in the guess box
\* that a submission would have scored as correct
C27_Witness ==
    /\ Revealing(gameState)
    /\ resolutionsThisTurn = 1
    /\ gameState.timeLeft > 0
    /\ gameState.lastGuessResult = "wrong"
    /\ guessResult(trim(gameState.guess), gameState.currentTrack) = "correct"
    /\ gameState.score > 0

(***************************************************************************)
(* C28.  restartGame returns the session to NotStarted with score 0, turn  *)
(* 0, streak 0, an empty played set, no current track, the countdown at    *)
(* the current difficulty's turnTimeLimit and the hint allowance at the    *)
(* current difficulty's value, while the track pool and the selected       *)
(* difficulty are left unchanged and nothing is fetched again.             *)
(***************************************************************************)
C28_Restart ==
    [][RestartGame
          => /\ NotStarted(gameState')
             /\ gameState'.score = 0
             /\ gameState'.turn = 0
             /\ gameState'.streak = 0
             /\ gameState'.playedTracks = <<>>
             /\ gameState'.currentTrack = NoTrack
             /\ gameState'.timeLeft = difficultySettings[gameState.difficulty].timeLimit
             /\ gameState'.hints = difficultySettings[gameState.difficulty].hints
             /\ gameState'.tracks = gameState.tracks
             /\ gameState'.difficulty = gameState.difficulty
             /\ UNCHANGED pipelineVars]_vars

\* back on the start screen after a hard session that had played a track (the
\* audio element exists), with the allowance and the countdown of hard
C28_Witness ==
    /\ NotStarted(gameState)
    /\ audioRef = "paused"
    /\ gameState.difficulty = "hard"
    /\ gameState.hints = 1
    /\ gameState.playedTracks = <<>>
    /\ gameState.timeLeft = 15

(***************************************************************************)
(* C29.  enhanceTracksWithPreviewUrls returns a list of the same length as *)
(* its input with the same track identifier at every position; a track     *)
(* that already had a preview URL is returned unchanged, and the only      *)
(* change ever made to a track is setting a null preview URL to the URL    *)
(* found for that track.  Stated for the input of every enhancement run    *)
(* that is in flight.                                                      *)
(***************************************************************************)
\* the URL the lookup finds for a track is modelled by the track's identifier
UrlFoundFor(t) == t.id

EnhancesOnlyNullPreviews(input, output) ==
    /\ Len(output) = Len(input)
    /\ \A i \in 1..Len(input) :
          /\ output[i].id = input[i].id
          /\ HasPreview(input[i]) => output[i] = input[i]
          /\ output[i].preview_url # input[i].preview_url
                => /\ ~HasPreview(input[i])
                   /\ input[i].id \in previewsFound
                   /\ output[i].preview_url = UrlFoundFor(input[i])
          /\ ~HasPreview(input[i]) /\ input[i].id \notin previewsFound
                => output[i] = input[i]

C29_EnhancementKeepsTracks ==
    /\ quick.st = "running"
          => EnhancesOnlyNullPreviews(
                quick.input, enhanceTracksWithPreviewUrls(quick.input, previewsFound, "quick"))
    /\ remaining.st = "running"
          => EnhancesOnlyNullPreviews(
                remaining.input,
                enhanceTracksWithPreviewUrls(remaining.input, previewsFound, "remaining"))

\* the quick enhancement is in flight for a track that has a preview, a track the
\* lookup finds one for and a track it finds none for
C29_Witness ==
    /\ quick.st = "running"
    /\ \E i, j, k \in 1..Len(quick.input) :
          /\ HasPreview(quick.input[i])
          /\ ~HasPreview(quick.input[j]) /\ quick.input[j].id \in previewsFound
          /\ ~HasPreview(quick.input[k]) /\ quick.input[k].id \notin previewsFound

(***************************************************************************)
(* Spotimatch: the recommendation list, loadTopTrackAndRecommendations,    *)
(* refreshRecommendations and enhanceAllPreviews.  The recommendations     *)
(* endpoint answers the load at mount and the load of a refresh with lists *)
(* of at most MaxRecs tracks; the swipe position and the liked and passed  *)
(* lists are not read by the list updates and are left out.                *)
(***************************************************************************)
MaxRecs == 2

\* the user's top track, the seed of the recommendations
SwipeSeed ==
    [artist |-> 1, genres |-> FALSE, popularity |-> 50, preview |-> TRUE,
     features |-> NoFeatures]

\* what the score and the reasons read of a recommended track: track 1 is by the
\* seed's artist, the popularity grows with the identifier
RecommendedTrack(t) ==
    [artist |-> IF t.id = 1 THEN 1 ELSE 2, genres |-> FALSE,
     popularity |-> Min(25 * t.id, 100), preview |-> HasPreview(t),
     features |-> NoFeatures]

\* recs.tracks.map(...): the recommendation of one track
processRecommendation(t) ==
    LET reasons == generateMatchReasons(SwipeSeed, RecommendedTrack(t))
    IN [track |-> t,
        similarity_score |->
            calculateEnhancedSimilarityScore(SwipeSeed, RecommendedTrack(t), reasons),
        reasons |-> reasons]

\* .filter((rec, index, self) => index === self.findIndex(same track id))
filterFirstOccurrences(recs) ==
    LET Keep(i) == \A j \in 1..(i - 1) : recs[j].track.id # recs[i].track.id
        kept == {i \in 1..Len(recs) : Keep(i)}
        Nth(n) == CHOOSE i \in kept : Cardinality({j \in kept : j < i}) = n - 1
    IN [n \in 1..Cardinality(kept) |-> recs[Nth(n)]]

\* .sort((a, b) => b.similarity_score - a.similarity_score): descending and stable
RECURSIVE sortBySimilarity(_)
sortBySimilarity(recs) ==
    IF recs = <<>> THEN <<>>
    ELSE LET rest == sortBySimilarity(Tail(recs))
             above == Cardinality({i \in 1..Len(rest) :
                          rest[i].similarity_score > Head(recs).similarity_score})
         IN SubSeq(rest, 1, above) \o <<Head(recs)>> \o SubSeq(rest, above + 1, Len(rest))

\* the list loadTopTrackAndRecommendations stores
uniqueRecommendations(tracks) ==
    sliceTo(sortBySimilarity(filterFirstOccurrences(
                [i \in 1..Len(tracks) |-> processRecommendation(tracks[i])])), 20)

\* setRecommendations((prev) => prev.map((rec, index) =>
\*     ({ ...rec, track: enhancedTracks[index] || rec.track })))
enhanceWriteBack(prev, enhancedTracks) ==
    [i \in 1..Len(prev) |->
        [prev[i] EXCEPT !.track = IF i <= Len(enhancedTracks)
                                  THEN enhancedTracks[i] ELSE prev[i].track]]

\* the tracks of the list, the argument of enhanceTracksWithPreviewUrls
tracksToEnhance(recs) == [i \in 1..Len(recs) |-> recs[i].track]

\* loadTopTrackAndRecommendations, from the answer of the recommendations on
LoadResolves ==
    /\ swipe.loading
    /\ swipe.answers # <<>>
    /\ swipe' = [swipe EXCEPT
                    !.recommendations = uniqueRecommendations(Head(swipe.answers)),
                    !.answers = Tail(swipe.answers),
                    !.loading = FALSE]
    /\ UNCHANGED <<sessionVars, pipelineVars, user, saveScoreCalls, match>>

\* the Find Previews button: enhanceAllPreviews up to its await.  When no track
\* lacks a preview the enhancement resolves before anything else can happen.
EnhanceAllPreviews ==
    /\ ~swipe.loading
    /\ ~swipe.enhancingPreviews
    /\ LET asked == tracksToEnhance(swipe.recommendations)
       IN IF \A i \in 1..Len(asked) : HasPreview(asked[i])
          THEN swipe' = [swipe EXCEPT
                            !.recommendations =
                                enhanceWriteBack(swipe.recommendations, asked)]
          ELSE swipe' = [swipe EXCEPT !.enhancingPreviews = TRUE,
                                      !.enhancement = Running(asked)]
    /\ UNCHANGED <<sessionVars, pipelineVars, user, saveScoreCalls, match>>

\* enhanceAllPreviews, from the answer of the enhancement on
EnhanceResolves ==
    /\ swipe.enhancement.st = "running"
    /\ LET asked == swipe.enhancement.input
           enhancedTracks == enhanceTracksWithPreviewUrls(asked, previewsFound, "enhanced")
       IN swipe' = [swipe EXCEPT
                       !.recommendations =
                           enhanceWriteBack(swipe.recommendations, enhancedTracks),
                       !.enhancingPreviews = FALSE,
                       !.enhancement = Idle]
    /\ UNCHANGED <<sessionVars, pipelineVars, user, saveScoreCalls, match>>

\* the New Recommendations button: refreshRecommendations up to the first await
RefreshRecommendations ==
    /\ ~swipe.loading
    /\ swipe.answers # <<>>
    /\ swipe' = [swipe EXCEPT !.loading = TRUE]
    /\ UNCHANGED <<sessionVars, pipelineVars, user, saveScoreCalls, match>>

SwipeNext ==
    \/ LoadResolves \/ EnhanceAllPreviews \/ EnhanceResolves \/ RefreshRecommendations

\* a track as the recommendations endpoint answers it
RecommendationTrack(id, withPreview) ==
    [id |-> id, preview_url |-> IF id \in withPreview THEN id ELSE 0,
     ref |-> "recommendations"]

\* the answers of the endpoint: any tracks, repeated or not
RecommendationAnswers(withPreview) ==
    UNION {[1..n -> {RecommendationTrack(id, withPreview) : id \in Ids}] : n \in 0..MaxRecs}

\* Spotimatch as mounted: the first load is in flight, a refresh will be answered
\* with the second list
SwipeInit ==
    /\ user = TRUE
    /\ gameState = InitialGameState
    /\ SessionRest
    /\ catalog = [medium |-> NoAnswer, short |-> NoAnswer, long |-> NoAnswer]
    /\ failures = NoFailures
    /\ loader = "medium"
    /\ quick = Idle
    /\ remaining = Idle
    /\ match = NoMatch
    /\ \E P \in SUBSET Ids :
          /\ deezer \in {{}, Ids \ P}
          /\ \E first \in RecommendationAnswers(P), second \in RecommendationAnswers(P) :
                swipe = [NoSwipe EXCEPT !.loading = TRUE, !.answers = <<first, second>>]

SpecSwipe == SwipeInit /\ [][SwipeNext]_vars

(***************************************************************************)
(* C30.  When enhanceAllPreviews resolves, every recommendation of the     *)
(* list keeps its own track identifier, similarity score and reasons (only *)
(* the preview URL of that same track may change), even if the list was    *)
(* refreshed or replaced while the enhancement request was in flight.      *)
(***************************************************************************)
C30_EnhancementKeepsRecommendations ==
    [][EnhanceResolves \/ EnhanceAllPreviews
          => /\ Len(swipe'.recommendations) = Len(swipe.recommendations)
             /\ \A i \in 1..Len(swipe.recommendations) :
                   LET old == swipe.recommendations[i]
                       new == swipe'.recommendations[i]
                   IN /\ new.track.id = old.track.id
                      /\ new.similarity_score = old.similarity_score
                      /\ new.reasons = old.reasons]_vars

====
